---------------------------- MODULE Spec2Model ----------------------------
(***************************************************************************)
(* A model of the batch converter: the command-line pipeline of            *)
(* converter.py (validate_and_fix_meta_buffer, zip_with_limit, main) and   *)
(* the GUI pipeline of converter_gui_ctk.py (validate_and_fix_meta,        *)
(* ConverterGUI.run_conversion).                                           *)
(*                                                                         *)
(* Text is a sequence of one-character strings, so that str.strip,         *)
(* str.lower, str.endswith and string concatenation are computed           *)
(* character by character as Python computes them.                         *)
(***************************************************************************)
EXTENDS Integers, Sequences, FiniteSets, TLC

(***************************************************************************)
(* Text helpers                                                            *)
(***************************************************************************)
UpperLetters ==
  <<"A","B","C","D","E","F","G","H","I","J","K","L","M",
    "N","O","P","Q","R","S","T","U","V","W","X","Y","Z">>

LowerLetters ==
  <<"a","b","c","d","e","f","g","h","i","j","k","l","m",
    "n","o","p","q","r","s","t","u","v","w","x","y","z">>

\* str.lower() on one character.
LowerChar(c) ==
  IF \E i \in 1..26 : UpperLetters[i] = c
  THEN LowerLetters[CHOOSE i \in 1..26 : UpperLetters[i] = c]
  ELSE c

\* str.lower()
Lower(s) == [i \in 1..Len(s) |-> LowerChar(s[i])]

\* The characters str.strip() removes (the whitespace the model's texts use).
IsSpace(c) == c = " "

RECURSIVE LStrip(_)
LStrip(s) == IF s # <<>> /\ IsSpace(Head(s)) THEN LStrip(Tail(s)) ELSE s

RECURSIVE RStrip(_)
RStrip(s) ==
  IF s # <<>> /\ IsSpace(s[Len(s)]) THEN RStrip(SubSeq(s, 1, Len(s) - 1)) ELSE s

\* str.strip()
Strip(s) == RStrip(LStrip(s))

\* str.endswith(suffix)
EndsWith(s, suffix) ==
  /\ Len(s) >= Len(suffix)
  /\ SubSeq(s, Len(s) - Len(suffix) + 1, Len(s)) = suffix

DotStl == <<".", "s", "t", "l">>

\* f.lower().endswith(".stl")
IsStlName(s) == EndsWith(Lower(s), DotStl)

\* The set of elements of a sequence.
Range(s) == {s[i] : i \in DOMAIN s}

\* The characters of the model's texts in code point order.
CharOrder ==
  <<" ", "-", ".", "0", "1", "2", "3", "4", "5", "6", "7", "8", "9">>
  \o UpperLetters \o <<"_">> \o LowerLetters

Ord(c) == CHOOSE i \in 1..Len(CharOrder) : CharOrder[i] = c

\* a < b for str: lexicographic by code point.
RECURSIVE StrLess(_, _)
StrLess(a, b) ==
  IF b = <<>> THEN FALSE
  ELSE IF a = <<>> THEN TRUE
  ELSE IF Head(a) = Head(b) THEN StrLess(Tail(a), Tail(b))
  ELSE Ord(Head(a)) < Ord(Head(b))

\* sorted(S) for a set of texts
RECURSIVE Sorted(_)
Sorted(S) ==
  IF S = {} THEN <<>>
  ELSE LET m == CHOOSE x \in S : \A y \in S \ {x} : StrLess(x, y)
       IN  <<m>> \o Sorted(S \ {m})

\* The orders os.listdir may enumerate a set of names in.
Perms(S) ==
  {f \in [1..Cardinality(S) -> S] :
     \A i, j \in 1..Cardinality(S) : f[i] = f[j] => i = j}

(***************************************************************************)
(* The manifest schema                                                     *)
(***************************************************************************)
K_batch      == <<"b","a","t","c","h">>
K_filename   == <<"f","i","l","e","n","a","m","e">>
K_material   == <<"m","a","t","e","r","i","a","l">>
K_part_id    == <<"p","a","r","t","_","i","d">>
K_copies     == <<"c","o","p","i","e","s">>
K_next_step  == <<"n","e","x","t","_","s","t","e","p">>
K_order_id   == <<"o","r","d","e","r","_","i","d">>
K_technology == <<"t","e","c","h","n","o","l","o","g","y">>

REQUIRED_COLUMNS ==
  <<K_batch, K_filename, K_material, K_part_id,
    K_copies, K_next_step, K_order_id, K_technology>>

\* header[: len(REQUIRED_COLUMNS)]
Prefix(s, n) == SubSeq(s, 1, IF Len(s) < n THEN Len(s) ELSE n)

\* Mutant of HeaderMatches: the cells are compared as a set, so a header
\* that lacks a column or has two columns swapped still passes.
HeaderMatchesAsSet(header) ==
  {Lower(Strip(c)) : c \in Range(Prefix(header, Len(REQUIRED_COLUMNS)))}
    \subseteq Range(REQUIRED_COLUMNS)

\* [h.strip().lower() for h in header[: len(REQUIRED_COLUMNS)]] == REQUIRED_COLUMNS
HeaderMatches(header) ==
  LET cut == Prefix(header, Len(REQUIRED_COLUMNS))
  IN  [i \in 1..Len(cut) |-> Lower(Strip(cut[i]))] = REQUIRED_COLUMNS


(***************************************************************************)
(* Bounds of the model                                                     *)
(***************************************************************************)
\* Longest file_list handed to zip_with_limit on its own.
MaxFiles == 3

\* Most data rows of a manifest handed to the validation functions.
MaxRows == 2

\* Longest text handed to sanitize_filename on its own.
MaxName == 4

\* Most validated rows handed to the grouping step on its own.
MaxPlanRows == 2

\* Most records of the group whose count-capped packaging is followed.
MaxRecords == 250

(***************************************************************************)
(* Program constants                                                       *)
(***************************************************************************)
MAX_ZIP_SIZE_MB == 900
MAX_ZIP_SIZE_BYTES == MAX_ZIP_SIZE_MB * 1024 * 1024
MAX_STL_PER_ZIP == 100

(***************************************************************************)
(* State                                                                   *)
(***************************************************************************)
VARIABLES
  pc,                \* position of the running function
  cancel,            \* CANCEL_FLAG (converter.py) / self.cancel_requested (GUI)
  path,              \* the way the run ended: which return or handler was taken
  ret,               \* main's return value (converter.py)
  program,           \* which program runs: "converter" (converter.py) or "gui"
  excel,             \* whether the working directory holds an .xlsx/.xlsm file
  disk,              \* directory name -> (file name -> size in bytes)
  archives,          \* every archive created in the working directory, in order
  \* the manifest as the Excel-to-CSV conversion delivers it
  header, rows_in,
  \* validate_and_fix_meta_buffer / validate_and_fix_meta
  rows,              \* list(csv.DictReader(...)): one dict per row
  val_i,             \* number of rows the loop has consumed
  fixed_copies, fixed_filenames,
  out_rows,          \* the rows DictWriter wrote, NoMeta while nothing is written
  \* zip_with_limit's parameters and locals
  file_list, base_dir, zip_base_name, meta_buf,
  zip_i,             \* number of entries of file_list the loop has consumed
  zip_from,          \* Len(archives) at the call: zip_paths is what follows
  current_zip_index, current_size,
  \* main's locals
  stl_folders, root_stls,
  fold_i,            \* number of stl_folders packaged
  \* validate_and_fix_meta's further locals
  stl_folder,        \* the directory whose files the rows are reconciled with
  stl_files_on_disk, \* lower-cased name -> name on disk
  sanitized_files, renamed_files, removed_rows,
  errors,            \* the row numbers of the errors recorded
  cleaned_rows,
  \* ConverterGUI's fields and run_conversion's locals
  running, status, success,
  temp_dir,          \* whether <workdir>/_temp_converter exists
  groups,
  grp_i,             \* number of groups consumed by the loop at hand
  chunk_i,           \* number of chunks of groups[grp_i + 1] packaged
  \* sanitize_filename's parameter and local
  value, sanitized

zipVars == <<file_list, base_dir, zip_base_name, meta_buf,
             zip_i, zip_from, current_zip_index, current_size>>

inVars == <<program, excel, header, rows_in>>

sanVars == <<value, sanitized>>

valVars == <<rows, val_i, fixed_copies, fixed_filenames, out_rows>>

mainVars == <<stl_folders, root_stls, fold_i>>

gvalVars == <<stl_folder, stl_files_on_disk, sanitized_files, renamed_files,
              removed_rows, errors, cleaned_rows>>

guiVars == <<running, status, success, temp_dir, groups, grp_i, chunk_i>>

vars == <<pc, cancel, path, ret, disk, archives, inVars, sanVars, valVars,
          zipVars,
          mainVars, gvalVars, guiVars>>

\* A directory name that is no text: the working directory itself.
ROOT == <<"/">>

\* A metadata buffer: None, or the rows written into it.
NoMeta == [present |-> FALSE, rows |-> <<>>]

MetaOf(content) == [present |-> TRUE, rows |-> content]

\* os.path.isfile(os.path.join(dir, name)) / os.path.exists(...)
IsFile(d, name) == d \in DOMAIN disk /\ name \in DOMAIN disk[d]

\* os.path.getsize(os.path.join(dir, name))
GetSize(d, name) == disk[d][name]

(***************************************************************************)
(* zip_with_limit (converter.py)                                           *)
(***************************************************************************)
\* new_zip(): the archive f"{zip_base_name}_part{current_zip_index}.zip",
\* opened empty for writing and appended to zip_paths.  An archive's name is
\* its base and its part suffix: <<>> for none, <<N>> for "_part<N>".
NewZip(base, index) ==
  [base |-> base, part |-> <<index>>, members |-> <<>>, meta |-> <<>>, open |-> TRUE]

\* current_zip.close() on the last archive opened
CloseLast(as) == [as EXCEPT ![Len(as)].open = FALSE]

\* Mutant of WriteMember: the entry is put before the archive's earlier ones.
WriteMemberFront(as, name) ==
  [as EXCEPT ![Len(as)].members = <<name>> \o @]

\* current_zip.writestr(rel_path, data)
WriteMember(as, name) ==
  [as EXCEPT ![Len(as)].members = Append(@, name)]

\* current_zip.writestr("meta.csv", meta_buf.getvalue())
WriteMeta(as, content) ==
  [as EXCEPT ![Len(as)].meta = Append(@, content)]

\* Mutant of OverBudget: the budget is tested on what is already in the
\* archive, the incoming file's size left out.
OverBudgetLate(size, file_size) == size > MAX_ZIP_SIZE_BYTES

\* current_size + file_size > MAX_ZIP_SIZE_BYTES
OverBudget(size, file_size) == size + file_size > MAX_ZIP_SIZE_BYTES

\* One iteration of "for i, filename in enumerate(file_list, start=1)" on the
\* loop state st = [archives, index, size].
ZipAdd(st, d, base, filename) ==
  IF ~IsFile(d, filename)
  THEN st
  ELSE LET file_size == GetSize(d, filename)
           st1 == IF OverBudget(st.size, file_size)
                  THEN [archives |-> Append(CloseLast(st.archives),
                                            NewZip(base, st.index + 1)),
                        index |-> st.index + 1,
                        size |-> 0]
                  ELSE st
       IN  [st1 EXCEPT !.archives = WriteMember(@, filename),
                       !.size = @ + file_size]

\* "finalize last archive": "if meta_buf:" writes meta.csv into the archive
\* that is open, which is then closed.
ZipFinalize(as, mb) ==
  CloseLast(IF mb.present THEN WriteMeta(as, mb.rows) ELSE as)

\* The whole of zip_with_limit on the archives already in the working directory.
RECURSIVE ZipLoop(_, _, _, _)
ZipLoop(st, d, base, files) ==
  IF files = <<>> THEN st
  ELSE ZipLoop(ZipAdd(st, d, base, Head(files)), d, base, Tail(files))

ZipWithLimit(as, files, d, base, mb) ==
  ZipFinalize(ZipLoop([archives |-> Append(as, NewZip(base, 1)),
                       index |-> 1, size |-> 0], d, base, files).archives, mb)

\* Entry: os.makedirs, zip_paths = [], current_zip_index = 1, new_zip().
ZipEnter(files, d, base, mb) ==
  /\ file_list' = files
  /\ base_dir' = d
  /\ zip_base_name' = base
  /\ meta_buf' = mb
  /\ zip_i' = 0
  /\ zip_from' = Len(archives)
  /\ current_zip_index' = 1
  /\ current_size' = 0
  /\ archives' = Append(archives, NewZip(base, 1))
  /\ pc' = "zip_loop"

\* The body of the for loop, for the next entry of file_list.  The log line
\* after current_zip.close() divides by the elapsed time.time() difference:
\* with elapsed = 0.0 it raises ZeroDivisionError, the archive closed and no
\* next one opened.
ZipFile ==
  /\ pc = "zip_loop"
  /\ zip_i < Len(file_list)
  /\ LET filename == file_list[zip_i + 1]
         st == ZipAdd([archives |-> archives, index |-> current_zip_index,
                       size |-> current_size],
                      base_dir, zip_base_name, filename)
     IN  \E elapsed_zero \in BOOLEAN :
           IF /\ elapsed_zero
              /\ IsFile(base_dir, filename)
              /\ OverBudget(current_size, GetSize(base_dir, filename))
           THEN /\ archives' = CloseLast(archives)
                /\ pc' = "zip_raise"
                /\ UNCHANGED <<current_zip_index, current_size, zip_i>>
           ELSE /\ archives' = st.archives
                /\ current_zip_index' = st.index
                /\ current_size' = st.size
                /\ zip_i' = zip_i + 1
                /\ pc' = pc
  /\ UNCHANGED <<cancel, path, ret, disk, inVars, sanVars,
                 gvalVars, guiVars, valVars, mainVars,
                 file_list, base_dir, zip_base_name, meta_buf, zip_from>>

\* After the loop: meta.csv into the open archive, close it, return zip_paths
\* (or ZeroDivisionError from the log line, as above).
ZipFinish ==
  /\ pc = "zip_loop"
  /\ zip_i = Len(file_list)
  /\ archives' = ZipFinalize(archives, meta_buf)
  /\ \E elapsed_zero \in BOOLEAN :
       pc' = IF elapsed_zero THEN "zip_raise" ELSE "zip_return"
  /\ UNCHANGED <<cancel, path, ret, disk, inVars, sanVars,
                 gvalVars, guiVars, valVars, mainVars, zipVars>>

\* zip_paths, the value zip_with_limit returns
zip_paths == SubSeq(archives, zip_from + 1, Len(archives))


(***************************************************************************)
(* csv.DictReader / csv.DictWriter                                         *)
(***************************************************************************)
\* reader.fieldnames of an empty file
NoHeader == << <<"None">> >>

\* dict(zip(fieldnames, cells)): a repeated field name keeps its last cell.
ReadRow(fieldnames, cells) ==
  [k \in Range(fieldnames) |->
     cells[CHOOSE i \in 1..Len(fieldnames) :
             /\ fieldnames[i] = k
             /\ \A j \in (i + 1)..Len(fieldnames) : fieldnames[j] # k]]

\* list(csv.DictReader(f))
ReadRows(fieldnames, lines) ==
  [i \in 1..Len(lines) |-> ReadRow(fieldnames, lines[i])]

\* (row.get(k) or "")
Get(row, k) == IF k \in DOMAIN row THEN row[k] ELSE <<>>

\* row[k] = v
SetKey(row, k, v) ==
  [x \in DOMAIN row \cup {k} |-> IF x = k THEN v ELSE row[x]]

\* DictWriter(fieldnames=REQUIRED_COLUMNS, extrasaction="raise"): a row with a
\* key that is no field name makes writerows raise ValueError.
Writable(rs) ==
  \A i \in 1..Len(rs) : DOMAIN rs[i] \subseteq Range(REQUIRED_COLUMNS)

\* What writerows writes for one row: row.get(k, "") under each field name.
WriteRow(row) == [k \in Range(REQUIRED_COLUMNS) |-> Get(row, k)]

WriteRows(rs) == [i \in 1..Len(rs) |-> WriteRow(rs[i])]

(***************************************************************************)
(* validate_and_fix_meta_buffer (converter.py)                             *)
(***************************************************************************)
One == <<"1">>

Zero == <<"0">>

\* Mutant of NeedsCopiesFix: only the empty text is fixed, "0" is kept.
NeedsCopiesFixEmptyOnly(row) == Strip(Get(row, K_copies)) = <<>>

\* (row.get("copies") or "").strip() in ("", "0")
NeedsCopiesFix(row) == Strip(Get(row, K_copies)) \in {<<>>, Zero}

\* Mutant of NeedsExtension: the suffix is compared with its letter case.
NeedsExtensionCased(fname) == fname # <<>> /\ ~EndsWith(fname, DotStl)

\* fname and not fname.lower().endswith(".stl"), fname the stripped filename
NeedsExtension(fname) == fname # <<>> /\ ~IsStlName(fname)

\* The loop body of validate_and_fix_meta_buffer on one row.
FixRowBuffer(row) ==
  LET r1 == IF NeedsCopiesFix(row) THEN SetKey(row, K_copies, One) ELSE row
      fname == Strip(Get(r1, K_filename))
  IN  IF NeedsExtension(fname)
      THEN SetKey(r1, K_filename, fname \o DotStl)
      ELSE r1

\* csv.DictReader, the header checks (ValueError on a missing or mismatched
\* header), and the counters' initialisation.
ValBufHeader ==
  /\ pc = "valbuf_header"
  /\ IF header = NoHeader \/ ~HeaderMatches(header)
     THEN /\ pc' = "valbuf_raise"
          /\ UNCHANGED valVars
     ELSE /\ rows' = ReadRows(header, rows_in)
          /\ val_i' = 0
          /\ fixed_copies' = 0
          /\ fixed_filenames' = 0
          /\ out_rows' = out_rows
          /\ pc' = "valbuf_rows"
  /\ UNCHANGED <<cancel, path, ret, disk, archives, inVars, sanVars,
                 gvalVars, guiVars, zipVars, mainVars>>

\* One iteration of "for row in rows": check_cancel(), then the two fixes.
ValBufRow ==
  /\ pc = "valbuf_rows"
  /\ val_i < Len(rows)
  /\ IF cancel
     THEN /\ pc' = "valbuf_cancelled"
          /\ UNCHANGED valVars
     ELSE LET row == rows[val_i + 1]
          IN  /\ rows' = [rows EXCEPT ![val_i + 1] = FixRowBuffer(row)]
              /\ fixed_copies' =
                   fixed_copies + (IF NeedsCopiesFix(row) THEN 1 ELSE 0)
              /\ fixed_filenames' =
                   fixed_filenames +
                   (IF NeedsExtension(Strip(Get(row, K_filename))) THEN 1 ELSE 0)
              /\ val_i' = val_i + 1
              /\ UNCHANGED <<pc, out_rows>>
  /\ UNCHANGED <<cancel, path, ret, disk, archives, inVars, sanVars,
                 gvalVars, guiVars, zipVars, mainVars>>

\* DictWriter: writeheader and writerows into out_buf, which is returned.
ValBufWrite ==
  /\ pc = "valbuf_rows"
  /\ val_i = Len(rows)
  /\ IF Writable(rows)
     THEN /\ out_rows' = MetaOf(WriteRows(rows))
          /\ pc' = "valbuf_return"
     ELSE /\ pc' = "valbuf_raise"
          /\ UNCHANGED out_rows
  /\ UNCHANGED <<cancel, path, ret, disk, archives, inVars, sanVars,
                 gvalVars, guiVars, zipVars, mainVars,
                 rows, val_i, fixed_copies, fixed_filenames>>


\* Mutant of RequestCancel: the flag is toggled, a second request unsets it.
RequestToggle ==
  /\ program = "converter"
  /\ cancel' = ~cancel
  /\ UNCHANGED <<pc, path, ret, disk, archives, inVars, sanVars,
                 gvalVars, guiVars, valVars, zipVars, mainVars>>

(***************************************************************************)
(* request_cancel (converter.py)                                           *)
(***************************************************************************)
RequestCancel ==
  /\ program = "converter"
  /\ ~cancel
  /\ cancel' = TRUE
  /\ UNCHANGED <<pc, path, ret, disk, archives, inVars, sanVars,
                 gvalVars, guiVars, valVars, zipVars, mainVars>>

(***************************************************************************)
(* main (converter.py)                                                     *)
(***************************************************************************)
\* os.path.splitext(os.path.basename(excel_path))[0]
BASENAME == <<"j", "o", "b">>

\* The names in directory d that end with .stl in any letter case.
StlNames(d) == {f \in DOMAIN disk[d] : IsStlName(f)}

\* os.path.isdir(os.path.join(workdir, entry))
SubDirs == DOMAIN disk \ {ROOT}

\* How main ends: "return 1" of a fatal check, "except RuntimeError",
\* "except Exception", or "return 0"; the finally clause deletes only
\* _cleaned_ workbooks and the log file.
CliEnd(how, code) ==
  /\ pc' = "cli_done"
  /\ path' = how
  /\ ret' = code

CliStart ==
  /\ pc = "cli_start"
  /\ IF cancel THEN CliEnd("cancelled", 1)
     ELSE IF ~excel THEN CliEnd("fatal", 1)
     ELSE pc' = "cli_convert" /\ UNCHANGED <<path, ret>>
  /\ UNCHANGED <<cancel, disk, archives, inVars, sanVars,
                 gvalVars, guiVars, valVars, zipVars, mainVars>>

\* check_cancel(), convert_excel_to_csv_buffer, then the call of
\* validate_and_fix_meta_buffer on its result.
CliConvert ==
  /\ pc = "cli_convert"
  /\ IF cancel THEN CliEnd("cancelled", 1)
     ELSE pc' = "valbuf_header" /\ UNCHANGED <<path, ret>>
  /\ UNCHANGED <<cancel, disk, archives, inVars, sanVars,
                 gvalVars, guiVars, valVars, zipVars, mainVars>>

\* check_cancel() and the scan of the working directory for STL files.
CliScan ==
  /\ pc = "valbuf_return"
  /\ IF cancel
     THEN CliEnd("cancelled", 1) /\ UNCHANGED mainVars
     ELSE LET folders == {d \in SubDirs : StlNames(d) # {}}
              loose == StlNames(ROOT)
          IN  /\ stl_folders' = Sorted(folders)
              /\ root_stls' = Sorted(loose)
              /\ fold_i' = 0
              /\ IF folders = {} /\ loose = {}
                 THEN CliEnd("fatal", 1)
                 ELSE pc' = "cli_package" /\ UNCHANGED <<path, ret>>
  /\ UNCHANGED <<cancel, disk, archives, inVars, sanVars,
                 gvalVars, guiVars, valVars, zipVars>>

\* "for stl_folder in stl_folders": check_cancel(), the folder's STL files in
\* the order os.listdir gives them, and the call of zip_with_limit.
CliPackageFolder ==
  /\ pc = "cli_package"
  /\ fold_i < Len(stl_folders)
  /\ IF cancel
     THEN CliEnd("cancelled", 1) /\ UNCHANGED <<archives, zipVars>>
     ELSE LET folder == stl_folders[fold_i + 1]
          IN  /\ \E files \in Perms(StlNames(folder)) :
                   ZipEnter(files, folder,
                            BASENAME \o <<"_">> \o folder, out_rows)
              /\ UNCHANGED <<path, ret>>
  /\ UNCHANGED <<cancel, disk, inVars, sanVars,
                 gvalVars, guiVars, valVars, mainVars>>

\* "if root_stls": check_cancel() and zip_with_limit on the loose files;
\* without loose files main returns 0.
CliPackageRoot ==
  /\ pc = "cli_package"
  /\ fold_i = Len(stl_folders)
  /\ IF root_stls = <<>>
     THEN CliEnd("success", 0) /\ UNCHANGED <<archives, zipVars>>
     ELSE IF cancel
     THEN CliEnd("cancelled", 1) /\ UNCHANGED <<archives, zipVars>>
     ELSE /\ ZipEnter(root_stls, ROOT,
                      BASENAME \o <<"_", "r", "o", "o", "t">>, out_rows)
          /\ UNCHANGED <<path, ret>>
  /\ UNCHANGED <<cancel, disk, inVars, sanVars,
                 gvalVars, guiVars, valVars, mainVars>>

\* zip_with_limit returned: the next folder, or "return 0" after the root files.
CliAfterZip ==
  /\ pc = "zip_return"
  /\ IF base_dir = ROOT
     THEN CliEnd("success", 0) /\ UNCHANGED fold_i
     ELSE /\ fold_i' = fold_i + 1
          /\ pc' = "cli_package"
          /\ UNCHANGED <<path, ret>>
  /\ UNCHANGED <<cancel, disk, archives, inVars, sanVars,
                 gvalVars, guiVars, valVars, zipVars,
                 stl_folders, root_stls>>

\* "except RuntimeError": check_cancel() raised inside the validation loop.
CliExceptCancel ==
  /\ pc = "valbuf_cancelled"
  /\ CliEnd("cancelled", 1)
  /\ UNCHANGED <<cancel, disk, archives, inVars, sanVars,
                 gvalVars, guiVars, valVars, zipVars, mainVars>>

\* "except Exception": ValueError of the validation, ZeroDivisionError of
\* zip_with_limit.
CliExceptError ==
  /\ pc \in {"valbuf_raise", "zip_raise"}
  /\ CliEnd("unexpected", 1)
  /\ UNCHANGED <<cancel, disk, archives, inVars, sanVars,
                 gvalVars, guiVars, valVars, zipVars, mainVars>>


(***************************************************************************)
(* sanitize_filename (converter_gui_ctk.py)                                *)
(***************************************************************************)
Digits == {"0", "1", "2", "3", "4", "5", "6", "7", "8", "9"}

\* [A-Za-z0-9_.]
IsAllowed(c) ==
  c \in Range(UpperLetters) \cup Range(LowerLetters) \cup Digits \cup {"_", "."}

\* re.sub(r"[^A-Za-z0-9_.]", "_", value)
ReplaceBad(s) == [i \in 1..Len(s) |-> IF IsAllowed(s[i]) THEN s[i] ELSE "_"]

\* re.sub(r"_+", "_", sanitized)
RECURSIVE Collapse(_)
Collapse(s) ==
  IF Len(s) < 2 THEN s
  ELSE IF s[1] = "_" /\ s[2] = "_" THEN Collapse(Tail(s))
  ELSE <<s[1]>> \o Collapse(Tail(s))

\* Mutant of StripUnderscores: only the leading characters are stripped.
RECURSIVE StripLeading(_)
StripLeading(s) ==
  IF s # <<>> /\ Head(s) \in {"_", " "} THEN StripLeading(Tail(s)) ELSE s

\* sanitized.strip("_ ")
RECURSIVE StripUnderscores(_)
StripUnderscores(s) ==
  IF s # <<>> /\ Head(s) \in {"_", " "} THEN StripUnderscores(Tail(s))
  ELSE IF s # <<>> /\ s[Len(s)] \in {"_", " "}
  THEN StripUnderscores(SubSeq(s, 1, Len(s) - 1))
  ELSE s

sanitize_filename(name) == StripUnderscores(Collapse(ReplaceBad(name)))

\* The three statements of sanitize_filename, one by one, on its parameter.
SanReplace ==
  /\ pc = "san_start"
  /\ sanitized' = ReplaceBad(value)
  /\ pc' = "san_collapse"
  /\ UNCHANGED <<cancel, path, ret, disk, archives, inVars, value, valVars,
                 zipVars, mainVars, gvalVars, guiVars>>

SanCollapse ==
  /\ pc = "san_collapse"
  /\ sanitized' = Collapse(sanitized)
  /\ pc' = "san_strip"
  /\ UNCHANGED <<cancel, path, ret, disk, archives, inVars, value, valVars,
                 zipVars, mainVars, gvalVars, guiVars>>

SanStrip ==
  /\ pc = "san_strip"
  /\ sanitized' = StripUnderscores(sanitized)
  /\ pc' = "san_return"
  /\ UNCHANGED <<cancel, path, ret, disk, archives, inVars, value, valVars,
                 zipVars, mainVars, gvalVars, guiVars>>

(***************************************************************************)
(* validate_and_fix_meta (converter_gui_ctk.py)                            *)
(*                                                                         *)
(* The file system is one that tells names apart by letter case and whose  *)
(* rename replaces an existing target.                                     *)
(***************************************************************************)
\* {f.lower(): f for f in os.listdir(stl_folder) if f.lower().endswith(".stl")}:
\* of two names equal up to case, the one os.listdir gives last is kept.
Indexes(d) ==
  {idx \in [{Lower(f) : f \in StlNames(d)} -> StlNames(d)] :
     \A l \in DOMAIN idx : Lower(idx[l]) = l}

\* not any((row.get(k) or "").strip() for k in row.keys())
IsBlank(row) == \A k \in DOMAIN row : Strip(row[k]) = <<>>

\* stl_files_on_disk.get(a) or stl_files_on_disk.get(b); <<>> for None
Lookup(idx, a, b) ==
  IF a \in DOMAIN idx THEN idx[a]
  ELSE IF b \in DOMAIN idx THEN idx[b]
  ELSE <<>>

\* os.rename(src, dst) inside directory d
Rename(dk, d, src, dst) ==
  [dk EXCEPT ![d] =
     [n \in (DOMAIN dk[d] \ {src}) \cup {dst} |->
        IF n = dst THEN dk[d][src] ELSE dk[d][n]]]

\* stl_files_on_disk.pop(original.lower(), None);
\* stl_files_on_disk[clean.lower()] = clean
Reindex(idx, original, clean) ==
  [l \in (DOMAIN idx \ {Lower(original)}) \cup {Lower(clean)} |->
     IF l = Lower(clean) THEN clean ELSE idx[l]]

\* The header checks ("return False" on a missing or mismatched header), the
\* index of the folder's STL files and the counters' initialisation.
GValHeader ==
  /\ pc = "gval_header"
  /\ IF header = NoHeader \/ ~HeaderMatches(header)
     THEN /\ pc' = "gval_false"
          /\ UNCHANGED <<valVars, stl_files_on_disk, sanitized_files,
                         renamed_files, removed_rows, errors, cleaned_rows>>
     ELSE /\ rows' = ReadRows(header, rows_in)
          /\ stl_files_on_disk' \in Indexes(stl_folder)
          /\ val_i' = 0
          /\ fixed_copies' = 0
          /\ fixed_filenames' = 0
          /\ sanitized_files' = 0
          /\ renamed_files' = 0
          /\ removed_rows' = 0
          /\ errors' = <<>>
          /\ cleaned_rows' = <<>>
          /\ out_rows' = out_rows
          /\ pc' = "gval_rows"
  /\ UNCHANGED <<cancel, path, ret, disk, archives, inVars, sanVars, zipVars,
                 mainVars,
                 stl_folder, guiVars>>

\* One iteration of "for i, row in enumerate(rows, start=2)"; the fixes are
\* made on the row's dict, which rows holds too.
GValRow ==
  /\ pc = "gval_rows"
  /\ val_i < Len(rows)
  /\ LET row == rows[val_i + 1]
         r1 == IF NeedsCopiesFix(row) THEN SetKey(row, K_copies, One) ELSE row
         stripped == Strip(Get(r1, K_filename))
         fname == IF NeedsExtension(stripped) THEN stripped \o DotStl ELSE stripped
         clean_name == sanitize_filename(fname)
         original_disk_name ==
           Lookup(stl_files_on_disk, Lower(fname), Lower(clean_name))
         kept == SetKey(r1, K_filename, clean_name)
     IN  IF IsBlank(row)
         THEN UNCHANGED <<disk, rows, fixed_copies, fixed_filenames,
                          stl_files_on_disk, sanitized_files, renamed_files,
                          removed_rows, errors, cleaned_rows>>
         ELSE /\ rows' = [rows EXCEPT ![val_i + 1] =
                            IF stripped # <<>> /\ original_disk_name # <<>>
                            THEN kept ELSE r1]
              /\ fixed_copies' =
                   fixed_copies + (IF NeedsCopiesFix(row) THEN 1 ELSE 0)
              /\ IF stripped = <<>>
                 THEN /\ errors' = Append(errors, val_i + 2)
                      /\ UNCHANGED <<disk, fixed_filenames, stl_files_on_disk,
                                     sanitized_files, renamed_files,
                                     removed_rows, cleaned_rows>>
                 ELSE /\ fixed_filenames' =
                           fixed_filenames +
                           (IF NeedsExtension(stripped) THEN 1 ELSE 0)
                      /\ sanitized_files' =
                           sanitized_files + (IF clean_name # fname THEN 1 ELSE 0)
                      /\ errors' = errors
                      /\ IF original_disk_name = <<>>
                         THEN /\ removed_rows' = removed_rows + 1
                              /\ UNCHANGED <<disk, stl_files_on_disk,
                                             renamed_files, cleaned_rows>>
                         ELSE /\ IF original_disk_name # clean_name
                                 THEN /\ disk' = Rename(disk, stl_folder,
                                                        original_disk_name,
                                                        clean_name)
                                      /\ renamed_files' = renamed_files + 1
                                      /\ stl_files_on_disk' =
                                           Reindex(stl_files_on_disk,
                                                   original_disk_name, clean_name)
                                 ELSE UNCHANGED <<disk, renamed_files,
                                                  stl_files_on_disk>>
                              /\ cleaned_rows' = Append(cleaned_rows, kept)
                              /\ removed_rows' = removed_rows
  /\ val_i' = val_i + 1
  /\ UNCHANGED <<pc, cancel, path, ret, archives, inVars, sanVars, zipVars,
                 mainVars,
                 out_rows, stl_folder, guiVars>>

\* The longest prefix of rs that DictWriter.writerows writes before a row
\* with a foreign key makes it raise.
RECURSIVE WritablePrefix(_)
WritablePrefix(rs) ==
  IF rs = <<>> \/ ~Writable(<<Head(rs)>>) THEN <<>>
  ELSE <<Head(rs)>> \o WritablePrefix(Tail(rs))

\* "Write cleaned CSV" and the verdict: False if errors were recorded.
GValWrite ==
  /\ pc = "gval_rows"
  /\ val_i = Len(rows)
  /\ out_rows' = MetaOf(WriteRows(WritablePrefix(cleaned_rows)))
  /\ pc' = IF ~Writable(cleaned_rows) THEN "gval_raise"
           ELSE IF errors # <<>> THEN "gval_false"
           ELSE "gval_true"
  /\ UNCHANGED <<cancel, path, ret, disk, archives, inVars, sanVars, zipVars,
                 mainVars,
                 rows, val_i, fixed_copies, fixed_filenames, gvalVars, guiVars>>

(***************************************************************************)
(* ConverterGUI (converter_gui_ctk.py)                                     *)
(***************************************************************************)
\* on_cancel
OnCancel ==
  /\ running
  /\ ~cancel
  /\ cancel' = TRUE
  /\ UNCHANGED <<pc, path, ret, disk, archives, inVars, sanVars, valVars, zipVars,
                 mainVars, gvalVars, guiVars>>

\* start_conversion, which schedules run_conversion
StartConversion ==
  /\ pc = "gui_idle"
  /\ ~running
  /\ running' = TRUE
  /\ cancel' = FALSE
  /\ pc' = "gui_scheduled"
  /\ UNCHANGED <<path, ret, disk, archives, inVars, sanVars, valVars, zipVars, mainVars,
                 gvalVars, status, success, temp_dir, groups, grp_i, chunk_i>>

\* run_conversion up to "try": the scratch directory is (re)created.
GuiBegin ==
  /\ pc = "gui_scheduled"
  /\ temp_dir' = TRUE
  /\ success' = FALSE
  /\ pc' = "gui_step1"
  /\ UNCHANGED <<cancel, path, ret, disk, archives, inVars, sanVars, valVars, zipVars,
                 mainVars, gvalVars, running, status, groups, grp_i, chunk_i>>

\* How run_conversion ends: a "return" inside try (the status line stays the
\* step's), "except RuntimeError", "except Exception", or step 7; then the
\* finally clause.
GuiEnd(how, line) ==
  /\ pc' = "gui_done"
  /\ path' = how
  /\ status' = line
  /\ running' = FALSE
  /\ cancel' = FALSE

GuiCancelled == GuiEnd("cancelled", "Cancelled by user.")

GuiError == GuiEnd("unexpected", "Error occurred.")

\* Step 1: self.check_cancel(), find_excel_file.
GuiStep1 ==
  /\ pc = "gui_step1"
  /\ IF cancel THEN GuiCancelled
     ELSE IF ~excel THEN GuiEnd("fatal", "Searching for Excel file...")
     ELSE /\ pc' = "gui_step2"
          /\ status' = "Searching for Excel file..."
          /\ UNCHANGED <<cancel, path, running>>
  /\ UNCHANGED <<ret, disk, archives, inVars, sanVars, valVars, zipVars, mainVars,
                 gvalVars, success, temp_dir, groups, grp_i, chunk_i>>

\* Step 2: self.check_cancel(), convert_excel_to_csv into the scratch
\* directory.
GuiStep2 ==
  /\ pc = "gui_step2"
  /\ IF cancel THEN GuiCancelled
     ELSE /\ pc' = "gui_step3"
          /\ status' = "Converting Excel to meta.csv..."
          /\ UNCHANGED <<cancel, path, running>>
  /\ UNCHANGED <<ret, disk, archives, inVars, sanVars, valVars, zipVars, mainVars,
                 gvalVars, success, temp_dir, groups, grp_i, chunk_i>>

\* Step 3: self.check_cancel(), the first directory os.listdir gives that
\* holds an STL file, and the call of validate_and_fix_meta on it.
GuiStep3 ==
  /\ pc = "gui_step3"
  /\ LET candidates == {d \in SubDirs : StlNames(d) # {}}
     IN  IF cancel THEN GuiCancelled /\ UNCHANGED stl_folder
         ELSE IF candidates = {}
         THEN GuiEnd("fatal", "Validating meta.csv...") /\ UNCHANGED stl_folder
         ELSE /\ stl_folder' \in candidates
              /\ pc' = "gval_header"
              /\ status' = "Validating meta.csv..."
              /\ UNCHANGED <<cancel, path, running>>
  /\ UNCHANGED <<ret, disk, archives, inVars, sanVars, valVars, zipVars, mainVars,
                 stl_files_on_disk, sanitized_files, renamed_files,
                 removed_rows, errors, cleaned_rows,
                 success, temp_dir, groups, grp_i, chunk_i>>

\* validate_and_fix_meta returned False, raised, or returned True: then the
\* validated meta.csv is read back ("return" if it holds no row).
GuiValidated ==
  /\ pc \in {"gval_false", "gval_raise", "gval_true"}
  /\ IF pc = "gval_raise" THEN GuiError
     ELSE IF pc = "gval_false" \/ out_rows.rows = <<>>
     THEN GuiEnd("fatal", status)
     ELSE pc' = "gui_step4" /\ UNCHANGED <<cancel, path, running, status>>
  /\ UNCHANGED <<ret, disk, archives, inVars, sanVars, valVars, zipVars, mainVars,
                 gvalVars, success, temp_dir, groups, grp_i, chunk_i>>

\* The rows read back from the validated meta.csv.
LoadedRows == out_rows.rows

\* (batch, material) of a row, both stripped
KeyOf(row) == <<Strip(Get(row, K_batch)), Strip(Get(row, K_material))>>

\* group_map's keys: rows without batch or material are skipped.
GroupKeySet ==
  {KeyOf(LoadedRows[i]) : i \in
     {j \in DOMAIN LoadedRows :
        KeyOf(LoadedRows[j])[1] # <<>> /\ KeyOf(LoadedRows[j])[2] # <<>>}}

\* (a.batch, a.material) < (b.batch, b.material)
KeyLess(a, b) ==
  \/ StrLess(a[1], b[1])
  \/ a[1] = b[1] /\ StrLess(a[2], b[2])

\* sorted(group_map.items(), key=lambda x: (x[0][0], x[0][1])), the keys
RECURSIVE SortedKeys(_)
SortedKeys(S) ==
  IF S = {} THEN <<>>
  ELSE LET m == CHOOSE x \in S : \A y \in S \ {x} : KeyLess(x, y)
       IN  <<m>> \o SortedKeys(S \ {m})

GroupKeys == SortedKeys(GroupKeySet)

\* group_map[key]: the rows of the key, in row order
GroupRows(key) == SelectSeq(LoadedRows, LAMBDA r : KeyOf(r) = key)

\* The directories material_dirs.get(material.lower()) can give: of two
\* directory names equal up to case the one os.listdir gives last is mapped.
MaterialDirs(material) == {d \in SubDirs : Lower(d) = Lower(material)}

\* Mutant of ExistingRows: the rows are kept whether their file exists or not.
ExistingRowsUnfiltered(rs, folder) == rs

\* existing_rows: the rows with a filename that exists in folder
ExistingRows(rs, folder) ==
  SelectSeq(rs, LAMBDA r :
    /\ Strip(Get(r, K_filename)) # <<>>
    /\ IsFile(folder, Strip(Get(r, K_filename))))

\* Step 4: self.check_cancel() and the grouping of the rows.
GuiStep4 ==
  /\ pc = "gui_step4"
  /\ IF cancel THEN GuiCancelled /\ UNCHANGED <<groups, grp_i>>
     ELSE IF GroupKeySet = {}
     THEN /\ GuiEnd("fatal", "Grouping rows by batch/material and checking STL files...")
          /\ UNCHANGED <<groups, grp_i>>
     ELSE /\ groups' = <<>>
          /\ grp_i' = 0
          /\ pc' = "gui_group"
          /\ status' = "Grouping rows by batch/material and checking STL files..."
          /\ UNCHANGED <<cancel, path, running>>
  /\ UNCHANGED <<ret, disk, archives, inVars, sanVars, valVars, zipVars, mainVars,
                 gvalVars, success, temp_dir, chunk_i>>

\* One iteration of the loop over the sorted groups: self.check_cancel(), the
\* material's folder, the rows whose file exists there.
GuiGroup ==
  /\ pc = "gui_group"
  /\ grp_i < Len(GroupKeys)
  /\ LET key == GroupKeys[grp_i + 1]
     IN  IF cancel THEN GuiCancelled /\ UNCHANGED <<groups, grp_i>>
         ELSE IF MaterialDirs(key[2]) = {}
         THEN GuiEnd("fatal", status) /\ UNCHANGED <<groups, grp_i>>
         ELSE \E folder \in MaterialDirs(key[2]) :
                LET existing_rows == ExistingRows(GroupRows(key), folder)
                IN  IF existing_rows = <<>>
                    THEN GuiEnd("fatal", status) /\ UNCHANGED <<groups, grp_i>>
                    ELSE /\ groups' =
                              Append(groups,
                                     [batch |-> key[1], material |-> key[2],
                                      folder |-> folder, rows |-> existing_rows])
                         /\ grp_i' = grp_i + 1
                         /\ UNCHANGED <<pc, cancel, path, running, status>>
  /\ UNCHANGED <<ret, disk, archives, inVars, sanVars, valVars, zipVars, mainVars,
                 gvalVars, success, temp_dir, chunk_i>>

\* After the loop ("return" without groups), step 5 begins: check_cancel().
GuiStep5 ==
  /\ pc = "gui_group"
  /\ grp_i = Len(GroupKeys)
  /\ IF groups = <<>> THEN GuiEnd("fatal", status) /\ UNCHANGED <<grp_i, chunk_i>>
     ELSE IF cancel THEN GuiCancelled /\ UNCHANGED <<grp_i, chunk_i>>
     ELSE /\ grp_i' = 0
          /\ chunk_i' = 0
          /\ pc' = "gui_pack"
          /\ status' = "Packaging files into ZIP..."
          /\ UNCHANGED <<cancel, path, running>>
  /\ UNCHANGED <<ret, disk, archives, inVars, sanVars, valVars, zipVars, mainVars,
                 gvalVars, success, temp_dir, groups>>

\* len(range(0, num_parts, MAX_STL_PER_ZIP))
ChunkCount(n) == (n + MAX_STL_PER_ZIP - 1) \div MAX_STL_PER_ZIP

\* Mutant of Chunk: the slice's end is taken as inclusive, one row too many.
ChunkInclusive(group_rows, c) ==
  LET first == (c - 1) * MAX_STL_PER_ZIP + 1
      last == c * MAX_STL_PER_ZIP + 1
  IN  SubSeq(group_rows, first,
             IF last > Len(group_rows) THEN Len(group_rows) ELSE last)

\* group_rows[i : i + MAX_STL_PER_ZIP] for the c-th start i (c from 1)
Chunk(group_rows, c) ==
  LET first == (c - 1) * MAX_STL_PER_ZIP + 1
      last == c * MAX_STL_PER_ZIP
  IN  SubSeq(group_rows, first,
             IF last > Len(group_rows) THEN Len(group_rows) ELSE last)

\* str(material).replace(" ", "_")
SafeMaterial(material) ==
  [i \in 1..Len(material) |-> IF material[i] = " " THEN "_" ELSE material[i]]

\* The archive of one chunk: meta.csv with the chunk's rows, then the file of
\* each row that has a filename existing in the group's folder.  The name has
\* no part suffix if the group has a single chunk.
ChunkArchive(grp, c) ==
  LET chunk == Chunk(grp.rows, c)
      present == ExistingRows(chunk, grp.folder)
  IN  [base |-> grp.batch \o <<"_">> \o SafeMaterial(grp.material),
       part |-> IF ChunkCount(Len(grp.rows)) = 1 THEN <<>> ELSE <<c>>,
       members |-> [i \in 1..Len(present) |-> Strip(Get(present[i], K_filename))],
       meta |-> <<WriteRows(chunk)>>,
       open |-> FALSE]

\* One iteration of the loops over the groups and their chunks:
\* self.check_cancel(), then the chunk's archive is written.
GuiChunk ==
  /\ pc = "gui_pack"
  /\ grp_i < Len(groups)
  /\ IF cancel
     THEN GuiCancelled /\ UNCHANGED <<archives, grp_i, chunk_i>>
     ELSE LET grp == groups[grp_i + 1]
          IN  /\ archives' = Append(archives, ChunkArchive(grp, chunk_i + 1))
              /\ IF chunk_i + 1 = ChunkCount(Len(grp.rows))
                 THEN grp_i' = grp_i + 1 /\ chunk_i' = 0
                 ELSE grp_i' = grp_i /\ chunk_i' = chunk_i + 1
              /\ UNCHANGED <<pc, cancel, path, running, status>>
  /\ UNCHANGED <<ret, disk, inVars, sanVars, valVars, zipVars, mainVars,
                 gvalVars, success, temp_dir, groups>>

\* Step 6 and 7: self.check_cancel(), the scratch directory is removed, done.
GuiCleanup ==
  /\ pc = "gui_pack"
  /\ grp_i = Len(groups)
  /\ IF cancel THEN GuiCancelled /\ UNCHANGED <<temp_dir, success>>
     ELSE /\ temp_dir' = FALSE
          /\ success' = TRUE
          /\ GuiEnd("success", "All tasks completed successfully.")
  /\ UNCHANGED <<ret, disk, archives, inVars, sanVars, valVars, zipVars, mainVars,
                 gvalVars, groups, grp_i, chunk_i>>

(***************************************************************************)
(* Inputs                                                                  *)
(***************************************************************************)
\* All sequences over S of length at most n.
RECURSIVE SeqsUpTo(_, _)
SeqsUpTo(S, n) ==
  IF n = 0 THEN {<<>>}
  ELSE LET shorter == SeqsUpTo(S, n - 1)
       IN  shorter \cup {Append(q, x) : q \in {r \in shorter : Len(r) = n - 1}, x \in S}

F_a == <<"a", ".", "s", "t", "l">>
F_b == <<"b", ".", "s", "t", "l">>
F_c == <<"c", ".", "S", "T", "L">>
F_C == <<"C", ".", "s", "t", "l">>
F_a_b == <<"a", " ", "b", ".", "s", "t", "l">>
StlFiles == {F_a, F_b, F_c}

\* File sizes around the budget: two halves fill an archive exactly.
HalfBudget == MAX_ZIP_SIZE_BYTES \div 2
FileSizes == {1, HalfBudget, MAX_ZIP_SIZE_BYTES + 1}

\* Every directory content over the given names and sizes.
Contents(names, sizes) ==
  UNION {[chosen -> sizes] : chosen \in SUBSET names}

\* Column values of a manifest line that the model does not vary.
V_batch    == <<"B", "1">>
V_material == <<"p", "a">>
V_other    == <<"x">>
K_notes    == <<"n", "o", "t", "e", "s">>

\* One manifest line: the cell of each column of cols, in order.
Line(cols, copies, filename) ==
  [i \in 1..Len(cols) |->
     IF cols[i] = K_copies THEN copies
     ELSE IF cols[i] = K_filename THEN filename
     ELSE IF cols[i] = K_batch THEN V_batch
     ELSE IF cols[i] = K_material THEN V_material
     ELSE V_other]

\* A validated manifest row for a file, as DictWriter writes and DictReader
\* reads it back.
MetaRow(filename) == ReadRow(REQUIRED_COLUMNS, Line(REQUIRED_COLUMNS, One, filename))

\* Sheets: the header cells as typed, and the column each cell stands for.
ExactSheet == [cells |-> REQUIRED_COLUMNS, cols |-> REQUIRED_COLUMNS]

\* "Copies" and " filename ": equal to the schema up to case and whitespace.
CasedSheet ==
  [cells |-> [REQUIRED_COLUMNS EXCEPT ![5] = <<"C","o","p","i","e","s">>],
   cols |-> REQUIRED_COLUMNS]

PaddedSheet ==
  [cells |-> [REQUIRED_COLUMNS EXCEPT ![2] = <<" ">> \o K_filename \o <<" ">>],
   cols |-> REQUIRED_COLUMNS]

\* A ninth column after the schema's eight.
WideSheet ==
  [cells |-> Append(REQUIRED_COLUMNS, K_notes),
   cols |-> Append(REQUIRED_COLUMNS, K_notes)]

\* The material column is missing.
NoMaterialSheet ==
  LET without == SelectSeq(REQUIRED_COLUMNS, LAMBDA k : k # K_material)
  IN  [cells |-> without, cols |-> without]

\* filename and batch swapped.
SwappedSheet ==
  LET swapped == [REQUIRED_COLUMNS EXCEPT ![1] = K_filename, ![2] = K_batch]
  IN  [cells |-> swapped, cols |-> swapped]

Sheets ==
  {ExactSheet, CasedSheet, PaddedSheet, WideSheet, NoMaterialSheet, SwappedSheet}

CopiesValues == {<<>>, Zero, <<" ", "0">>, <<" ">>, <<"2">>}

FilenameValues ==
  {<<>>, <<"a">>, F_b, F_c, F_C, F_b \o <<" ">>, <<" ">>, <<"a", " ", "b">>}

\* The (copies, filename) pairs of a line: each value of one column beside a
\* plain value of the other, and a line that needs both fixes.
CellPairs ==
  {<<c, F_b>> : c \in CopiesValues} \cup {<<<<"2">>, f>> : f \in FilenameValues}
  \cup {<<<<>>, <<"a">>>>}

\* A line of empty cells.
BlankLine(cols) == [i \in 1..Len(cols) |-> <<>>]

\* A line with a file name and copies but an empty part_id cell.
MissingLine(cols) ==
  [i \in 1..Len(cols) |->
     IF cols[i] = K_part_id THEN <<>> ELSE Line(cols, <<"2">>, F_a)[i]]

\* The manifests of a sheet with at most n rows.
Manifests(sheet, n) ==
  SeqsUpTo({Line(sheet.cols, p[1], p[2]) : p \in CellPairs}
             \cup {BlankLine(sheet.cols), MissingLine(sheet.cols)}, n)

(***************************************************************************)
(* Specifications                                                          *)
(***************************************************************************)
\* Variables a specification does not use keep these values.
IdleSan == value = <<>> /\ sanitized = <<>>

IdleVal ==
  /\ rows = <<>> /\ val_i = 0 /\ fixed_copies = 0 /\ fixed_filenames = 0
  /\ out_rows = NoMeta

IdleZip ==
  /\ file_list = <<>> /\ base_dir = ROOT /\ zip_base_name = <<>>
  /\ meta_buf = NoMeta /\ zip_i = 0 /\ zip_from = 0
  /\ current_zip_index = 0 /\ current_size = 0

IdleMain == stl_folders = <<>> /\ root_stls = <<>> /\ fold_i = 0

IdleGVal ==
  /\ stl_folder = ROOT /\ stl_files_on_disk = <<>>
  /\ sanitized_files = 0 /\ renamed_files = 0 /\ removed_rows = 0
  /\ errors = <<>> /\ cleaned_rows = <<>>

IdleGui ==
  /\ running = FALSE /\ status = "" /\ success = FALSE /\ temp_dir = FALSE
  /\ groups = <<>> /\ grp_i = 0 /\ chunk_i = 0

\* sanitize_filename on its own: any text of at most MaxName characters that
\* are allowed ones of each kind, the underscore, the dot, the space and a
\* character outside the allow-list.
NameChars == {"a", "Z", "7", "_", ".", " ", "-"}

InitSanitize ==
  /\ pc = "san_start"
  /\ program = "gui"
  /\ cancel = FALSE /\ path = "none" /\ ret = "none" /\ excel = FALSE
  /\ disk = (ROOT :> <<>>) /\ archives = <<>>
  /\ header = NoHeader /\ rows_in = <<>>
  /\ value \in SeqsUpTo(NameChars, MaxName)
  /\ sanitized = <<>>
  /\ IdleVal /\ IdleZip /\ IdleMain /\ IdleGVal /\ IdleGui

NextSanitize == SanReplace \/ SanCollapse \/ SanStrip

SpecSanitize == InitSanitize /\ [][NextSanitize]_vars

\* zip_with_limit on its own: any file list over three names, any directory
\* content, with or without a metadata buffer.
ZipStart ==
  /\ pc = "zip_start"
  /\ ZipEnter(file_list, base_dir, zip_base_name, meta_buf)
  /\ UNCHANGED <<cancel, path, ret, disk, inVars, sanVars,
                 gvalVars, guiVars, valVars, mainVars>>

InitZip ==
  /\ pc = "zip_start"
  /\ program = "converter"
  /\ cancel = FALSE /\ path = "none" /\ ret = "none" /\ excel = TRUE
  /\ header = NoHeader /\ rows_in = <<>>
  /\ archives = <<>>
  /\ IdleSan /\ IdleVal /\ IdleMain /\ IdleGVal /\ IdleGui
  /\ file_list \in SeqsUpTo(StlFiles, MaxFiles)
  /\ base_dir = V_material
  /\ zip_base_name = BASENAME
  /\ \E content \in Contents(StlFiles, FileSizes) :
       disk = (ROOT :> <<>>) @@ (V_material :> content)
  /\ meta_buf \in {NoMeta, MetaOf([i \in 1..Len(file_list) |-> MetaRow(file_list[i])])}
  /\ zip_i = 0 /\ zip_from = 0 /\ current_zip_index = 0 /\ current_size = 0

NextZip == ZipStart \/ ZipFile \/ ZipFinish

SpecZip == InitZip /\ [][NextZip]_vars

\* validate_and_fix_meta_buffer on its own: any sheet, any manifest.
InitValBuf ==
  /\ pc = "valbuf_header"
  /\ program = "converter"
  /\ cancel = FALSE /\ path = "none" /\ ret = "none" /\ excel = TRUE
  /\ disk = (ROOT :> <<>>)
  /\ archives = <<>>
  /\ \/ header = NoHeader /\ rows_in = <<>>
     \/ \E sheet \in Sheets :
          /\ header = sheet.cells
          /\ rows_in \in Manifests(sheet, MaxRows)
  /\ IdleSan /\ IdleVal /\ IdleZip /\ IdleMain /\ IdleGVal /\ IdleGui

NextValBuf == RequestCancel \/ ValBufHeader \/ ValBufRow \/ ValBufWrite

SpecValBuf == InitValBuf /\ [][NextValBuf]_vars

\* main from its first line: working directories with up to two STL folders
\* and loose STL files, with and without a workbook, and short manifests of
\* a matching, a mismatching and a widened sheet.
D_second == <<"P", "B">>
F_notes  == <<"n", "o", "t", "e", "s", ".", "t", "x", "t">>

WorkDirs ==
  {(ROOT :> loose) @@ (V_material :> first) @@ second :
     loose \in {<<>>, (F_a :> 1)},
     first \in Contents(StlFiles, {1, HalfBudget}),
     second \in {<<>>, (D_second :> (F_notes :> 1)), (D_second :> (F_a :> 1))}}

MainSheets == {ExactSheet, NoMaterialSheet, WideSheet}

InitMain ==
  /\ pc = "cli_start"
  /\ program = "converter"
  /\ cancel = FALSE /\ path = "none" /\ ret = "none"
  /\ excel \in BOOLEAN
  /\ disk \in WorkDirs
  /\ archives = <<>>
  /\ \/ header = NoHeader /\ rows_in = <<>>
     \/ \E sheet \in MainSheets :
          /\ header = sheet.cells
          /\ rows_in \in {<<>>, <<Line(sheet.cols, <<>>, <<"a">>)>>}
  /\ IdleSan /\ IdleVal /\ IdleZip /\ IdleMain /\ IdleGVal /\ IdleGui

NextMain ==
  \/ RequestCancel
  \/ CliStart \/ CliConvert
  \/ ValBufHeader \/ ValBufRow \/ ValBufWrite
  \/ CliScan \/ CliPackageFolder \/ CliPackageRoot
  \/ ZipFile \/ ZipFinish \/ CliAfterZip
  \/ CliExceptCancel \/ CliExceptError

SpecMain == InitMain /\ [][NextMain]_vars

\* validate_and_fix_meta on its own: any sheet, any manifest, and a folder
\* with files under the manifest's names, under another letter case, and
\* under a name that sanitizing changes.

FolderContents ==
  {<<>>,
   (F_a :> 1),
   (F_b :> 1) @@ (F_c :> 1),
   (F_a_b :> 1) @@ (F_b :> 1),
   (F_a :> 1) @@ (F_C :> 1)}

InitGVal ==
  /\ pc = "gval_header"
  /\ program = "gui"
  /\ cancel = FALSE /\ path = "none" /\ ret = "none" /\ excel = TRUE
  /\ \E content \in FolderContents :
       disk = (ROOT :> <<>>) @@ (V_material :> content)
  /\ archives = <<>>
  /\ \/ header = NoHeader /\ rows_in = <<>>
     \/ \E sheet \in Sheets :
          /\ header = sheet.cells
          /\ rows_in \in Manifests(sheet, MaxRows)
  /\ IdleSan /\ IdleVal /\ IdleZip /\ IdleMain /\ IdleGui
  /\ stl_folder = V_material /\ stl_files_on_disk = <<>>
  /\ sanitized_files = 0 /\ renamed_files = 0 /\ removed_rows = 0
  /\ errors = <<>> /\ cleaned_rows = <<>>

NextGVal == GValHeader \/ GValRow \/ GValWrite

SpecGVal == InitGVal /\ [][NextGVal]_vars

\* Both validation functions.
SpecValidators == (InitValBuf \/ InitGVal) /\ [][NextValBuf \/ NextGVal]_vars

\* The GUI from its construction: working directories with up to two
\* folders, with and without a workbook, and short manifests.
GuiWorkDirs ==
  {(ROOT :> <<>>) @@ (V_material :> first) @@ second :
     first \in Contents({F_a, F_b}, {1}),
     second \in {<<>>, (D_second :> (F_a :> 1))}}

GuiLines(sheet) == {Line(sheet.cols, <<>>, <<"a">>), Line(sheet.cols, <<"2">>, F_b)}

InitGui ==
  /\ pc = "gui_idle"
  /\ program = "gui"
  /\ cancel = FALSE /\ path = "none" /\ ret = "none"
  /\ excel \in BOOLEAN
  /\ disk \in GuiWorkDirs
  /\ archives = <<>>
  /\ \/ header = NoHeader /\ rows_in = <<>>
     \/ \E sheet \in MainSheets :
          /\ header = sheet.cells
          /\ rows_in \in SeqsUpTo(GuiLines(sheet), 2)
  /\ IdleSan /\ IdleVal /\ IdleZip /\ IdleMain /\ IdleGVal /\ IdleGui

NextGui ==
  \/ OnCancel \/ StartConversion \/ GuiBegin
  \/ GuiStep1 \/ GuiStep2 \/ GuiStep3
  \/ GValHeader \/ GValRow \/ GValWrite \/ GuiValidated
  \/ GuiStep4 \/ GuiGroup \/ GuiStep5 \/ GuiChunk \/ GuiCleanup

SpecGui == InitGui /\ [][NextGui]_vars

\* Both programs from their first step.
SpecPipelines == (InitMain \/ InitGui) /\ [][NextMain \/ NextGui]_vars

\* Step 5 of run_conversion on one group of n records, 1 <= n <= MaxRecords,
\* each with a file of its own in the group's folder: the state steps 1 to 4
\* leave for such a manifest.
DigitChars == <<"0", "1", "2", "3", "4", "5", "6", "7", "8", "9">>

RECURSIVE Decimal(_)
Decimal(n) ==
  IF n < 10 THEN <<DigitChars[n + 1]>>
  ELSE Decimal(n \div 10) \o <<DigitChars[(n % 10) + 1]>>

RecordFile(i) == <<"p">> \o Decimal(i) \o DotStl

Records(n) == [i \in 1..n |-> MetaRow(RecordFile(i))]

InitPack ==
  /\ pc = "gui_pack"
  /\ program = "gui"
  /\ cancel = FALSE /\ path = "none" /\ ret = "none" /\ excel = TRUE
  /\ archives = <<>>
  /\ header = REQUIRED_COLUMNS
  /\ \E n \in 1..MaxRecords :
       /\ rows_in = [i \in 1..n |-> Line(REQUIRED_COLUMNS, One, RecordFile(i))]
       /\ disk = (ROOT :> <<>>) @@
                 (V_material :> [f \in {RecordFile(i) : i \in 1..n} |-> 1])
       /\ rows = Records(n)
       /\ val_i = n
       /\ cleaned_rows = Records(n)
       /\ out_rows = MetaOf(Records(n))
       /\ stl_files_on_disk = [l \in {RecordFile(i) : i \in 1..n} |-> l]
       /\ groups = <<[batch |-> V_batch, material |-> V_material,
                      folder |-> V_material, rows |-> Records(n)]>>
  /\ fixed_copies = 0 /\ fixed_filenames = 0
  /\ stl_folder = V_material
  /\ sanitized_files = 0 /\ renamed_files = 0 /\ removed_rows = 0
  /\ errors = <<>>
  /\ IdleSan /\ IdleZip /\ IdleMain
  /\ running = TRUE /\ status = "Packaging files into ZIP..."
  /\ success = FALSE /\ temp_dir = TRUE
  /\ grp_i = 0 /\ chunk_i = 0

NextPack == OnCancel \/ GuiChunk \/ GuiCleanup

SpecPack == InitPack /\ [][NextPack]_vars

(***************************************************************************)
(* Claims                                                                  *)
\* Steps 4 to 7 of run_conversion on the state a successful validation
\* leaves: a folder "pa" with files, with or without a folder "PB", one of the
\* folders with files being the one the rows were reconciled with, and at
\* most MaxPlanRows validated rows, each of one of two batches, of a material
\* with a folder of its name, with a folder of its name in another letter
\* case or without a folder, and naming a file of the reconciled folder.
V_batch2 == <<"B", "2">>
M_cased == <<"p", "b">>
M_none == <<"p", "c">>

PlanRow(batch, material, filename) ==
  [MetaRow(filename) EXCEPT ![K_batch] = batch, ![K_material] = material]

PlanDirs ==
  {(ROOT :> <<>>) @@ (V_material :> first) @@ second :
     first \in Contents({F_a, F_b}, {1}) \ {<<>>},
     second \in {<<>>} \cup {(D_second :> c) : c \in Contents({F_a, F_b}, {1})}}

InitPlan ==
  /\ pc = "gui_step4"
  /\ program = "gui"
  /\ cancel = FALSE /\ path = "none" /\ ret = "none" /\ excel = TRUE
  /\ archives = <<>>
  /\ header = REQUIRED_COLUMNS
  /\ disk \in PlanDirs
  /\ stl_folder \in {d \in SubDirs : StlNames(d) # {}}
  /\ stl_files_on_disk \in Indexes(stl_folder)
  /\ rows \in SeqsUpTo({PlanRow(b, m, f) : b \in {V_batch, V_batch2},
                                           m \in {V_material, M_cased, M_none},
                                           f \in StlNames(stl_folder)},
                       MaxPlanRows) \ {<<>>}
  /\ rows_in = [i \in DOMAIN rows |-> WriteRow(rows[i])]
  /\ val_i = Len(rows)
  /\ cleaned_rows = rows
  /\ out_rows = MetaOf(WriteRows(rows))
  /\ fixed_copies = 0 /\ fixed_filenames = 0
  /\ sanitized_files = 0 /\ renamed_files = 0 /\ removed_rows = 0
  /\ errors = <<>>
  /\ IdleSan /\ IdleZip /\ IdleMain
  /\ running = TRUE /\ status = "Validating meta.csv..."
  /\ success = FALSE /\ temp_dir = TRUE
  /\ groups = <<>> /\ grp_i = 0 /\ chunk_i = 0

NextPlan ==
  OnCancel \/ GuiStep4 \/ GuiGroup \/ GuiStep5 \/ GuiChunk \/ GuiCleanup

SpecPlan == InitPlan /\ [][NextPlan]_vars

\* Both packagers: zip_with_limit on its own and step 5 on one group.
SpecPackagers == (InitZip \/ InitPack) /\ [][NextZip \/ NextPack]_vars

(***************************************************************************)
\* The sizes of an archive's member files, summed, in directory d.
RECURSIVE Payload(_, _)
Payload(d, members) ==
  IF members = <<>> THEN 0
  ELSE GetSize(d, Head(members)) + Payload(d, Tail(members))

Oversize(d, name) == GetSize(d, name) > MAX_ZIP_SIZE_BYTES

\* C1: in zip_with_limit, at every moment, no archive's member files add up
\* to more than MAX_ZIP_SIZE_BYTES unless the archive holds one file that is
\* alone over the budget; and every file over the budget that the loop has
\* consumed is the only member of some archive.
C1_ByteCap ==
  /\ \A k \in DOMAIN archives :
       \/ Payload(base_dir, archives[k].members) <= MAX_ZIP_SIZE_BYTES
       \/ /\ Len(archives[k].members) = 1
          /\ Oversize(base_dir, archives[k].members[1])
  /\ \A i \in 1..zip_i :
       (IsFile(base_dir, file_list[i]) /\ Oversize(base_dir, file_list[i]))
         => \E k \in DOMAIN archives : archives[k].members = <<file_list[i]>>

\* C1's case: the call returned one archive filled to the byte with two files
\* and one archive holding a single file over the budget.
C1_Witness ==
  /\ pc = "zip_return"
  /\ \E k \in DOMAIN archives :
       /\ Len(archives[k].members) = 2
       /\ Payload(base_dir, archives[k].members) = MAX_ZIP_SIZE_BYTES
  /\ \E k \in DOMAIN archives :
       /\ Len(archives[k].members) = 1
       /\ Oversize(base_dir, archives[k].members[1])

\* The file names of metadata rows, in row order.
RowFiles(content) == [i \in 1..Len(content) |-> Get(content[i], K_filename)]

\* C3 as claimed: every archive that has been closed holds exactly one
\* meta.csv, whose rows name exactly the archive's member files.
C3_Claim ==
  \A k \in DOMAIN archives :
    ~archives[k].open =>
      /\ Len(archives[k].meta) = 1
      /\ Range(RowFiles(archives[k].meta[1])) = Range(archives[k].members)

\* main's return value on its fatal checks ("return 1").
FATAL_RETURN == 1

\* C4 as claimed: a run of main that ended on a cancellation check before
\* any call of zip_with_limit has created no archive and returns a value
\* other than the one a fatal failure returns.
C4_Claim ==
  (pc = "cli_done" /\ path = "cancelled" /\ current_zip_index = 0)
    => (archives = <<>> /\ ret # FATAL_RETURN)

\* What is compared between two runs: each archive's name and member set.
Partition(as) ==
  [k \in 1..Len(as) |->
     [base |-> as[k].base, part |-> as[k].part, members |-> Range(as[k].members)]]

\* The archives of a run of main's packaging loop in which os.listdir
\* enumerates every folder in sorted order.
RECURSIVE SortedRun(_, _)
SortedRun(as, folders) ==
  IF folders = <<>>
  THEN IF root_stls = <<>> THEN as
       ELSE ZipWithLimit(as, root_stls, ROOT,
                         BASENAME \o <<"_", "r", "o", "o", "t">>, out_rows)
  ELSE SortedRun(ZipWithLimit(as, Sorted(StlNames(Head(folders))), Head(folders),
                              BASENAME \o <<"_">> \o Head(folders), out_rows),
                 Tail(folders))

\* C5 as claimed: a successful run of main leaves the archives, by name and
\* members, that the run over the same working directory leaves in which the
\* filesystem enumerates the folders in sorted order.
C5_Claim ==
  (pc = "cli_done" /\ path = "success")
    => Partition(archives) = Partition(SortedRun(<<>>, stl_folders))

\* The archives made for one group (one base name).
OfBase(b) == {k \in DOMAIN archives : archives[k].base = b}

\* C6 as claimed: when main has succeeded, an archive's name carries a
\* "_part<N>" suffix exactly if its group produced more than one archive.
C6_Claim ==
  (pc = "cli_done" /\ path = "success")
    => \A k \in DOMAIN archives :
         (archives[k].part # <<>>) <=> (Cardinality(OfBase(archives[k].base)) > 1)

\* C8 as claimed: validate_and_fix_meta_buffer on a header that equals the
\* schema in its first 8 cells up to letter case and surrounding whitespace
\* never raises, and what it returns are the rows under the 8 schema names.
C8_Claim ==
  (header # NoHeader /\ HeaderMatches(header))
    => /\ pc # "valbuf_raise"
       /\ pc = "valbuf_return" =>
            /\ out_rows.present
            /\ Len(out_rows.rows) = Len(rows_in)
            /\ \A i \in DOMAIN out_rows.rows :
                 DOMAIN out_rows.rows[i] = Range(REQUIRED_COLUMNS)

\* The member files of archives k..Len(as), concatenated.
RECURSIVE Members(_, _)
Members(as, k) ==
  IF k > Len(as) THEN <<>> ELSE as[k].members \o Members(as, k + 1)

\* C2: step 5 on a group of n records: no archive ever holds more than
\* MAX_STL_PER_ZIP members, every archive before the newest holds exactly
\* that many, the members taken together are the group's files in row order,
\* and when the run has succeeded all n files are packed in the least number
\* of archives c with c * MAX_STL_PER_ZIP >= n.
C2_CountCap ==
  LET n == Len(groups[1].rows)
      files == RowFiles(groups[1].rows)
      packed == Members(archives, 1)
  IN  /\ \A k \in DOMAIN archives : Len(archives[k].members) <= MAX_STL_PER_ZIP
      /\ \A k \in 1..(Len(archives) - 1) :
           Len(archives[k].members) = MAX_STL_PER_ZIP
      /\ Len(packed) <= n
      /\ packed = SubSeq(files, 1, Len(packed))
      /\ path = "success" =>
           /\ packed = files
           /\ Len(archives) * MAX_STL_PER_ZIP >= n
           /\ (Len(archives) - 1) * MAX_STL_PER_ZIP < n

\* C2's case: 250 records packed into archives of 100, 100 and 50 members.
C2_Witness ==
  /\ path = "success"
  /\ Len(groups[1].rows) = 250
  /\ Len(archives) = 3
  /\ Len(archives[1].members) = 100
  /\ Len(archives[2].members) = 100
  /\ Len(archives[3].members) = 50

\* The header has cells, and its first 8, trimmed and lower-cased, are not
\* the schema.
Mismatch ==
  /\ header # NoHeader
  /\ \/ Len(header) < 8
     \/ \E i \in 1..8 : Lower(Strip(header[i])) # REQUIRED_COLUMNS[i]

\* C7: in both programs, with a mismatching header no row is ever read or
\* fixed, no counter moves, no file is renamed, no corrected manifest is
\* written, no archive is created, and the run does not end in success.
C7_SchemaError ==
  /\ [](Mismatch =>
          /\ rows = <<>> /\ val_i = 0 /\ cleaned_rows = <<>>
          /\ fixed_copies = 0 /\ fixed_filenames = 0
          /\ sanitized_files = 0 /\ renamed_files = 0 /\ removed_rows = 0
          /\ ~out_rows.present
          /\ archives = <<>>
          /\ pc \notin {"valbuf_rows", "valbuf_return", "gval_rows", "gval_true"}
          /\ path # "success")
  /\ [][Mismatch => disk' = disk]_vars

\* C7's case: the GUI run of a manifest whose header lacks the material
\* column has ended after validate_and_fix_meta returned False.
C7_Witness ==
  /\ pc = "gui_done"
  /\ header = NoMaterialSheet.cells
  /\ rows_in # <<>>
  /\ status = "Validating meta.csv..."
  /\ path = "fatal"

\* The cell of input row i under the schema name k, <<>> if the header has
\* no cell spelled k.
InputCell(i, k) == Get(ReadRow(header, rows_in[i]), k)

\* Whether input row i is processed as a data row: validate_and_fix_meta
\* skips the rows that are blank, validate_and_fix_meta_buffer none.
IsData(i) ==
  program = "converter" \/ \E j \in DOMAIN rows_in[i] : Strip(rows_in[i][j]) # <<>>

\* The rows written are the processed rows, or in the GUI some of them.
OutputFromRows ==
  out_rows.present =>
    \A j \in DOMAIN out_rows.rows :
      \E i \in 1..val_i : out_rows.rows[j] = WriteRow(rows[i])

\* C9 as claimed: a processed data row has copies "1" if its copies cell was
\* empty or "0", and its copies cell as it was otherwise.
C9_Claim ==
  pc \in {"valbuf_rows", "valbuf_return", "gval_rows", "gval_true"} =>
    \A i \in 1..val_i :
      IsData(i) =>
        Get(rows[i], K_copies) =
          IF InputCell(i, K_copies) \in {<<>>, Zero} THEN One
          ELSE InputCell(i, K_copies)

\* C9 as amended: a processed data row has copies "1" if its copies cell,
\* trimmed of surrounding whitespace, was empty or "0", and its copies cell
\* as it was otherwise; fixed_copies counts the rows of the first kind; and
\* the rows written carry these values.
C9_Copies ==
  pc \in {"valbuf_rows", "valbuf_return", "gval_rows", "gval_true", "gval_false"} =>
    /\ \A i \in 1..val_i :
         IsData(i) =>
           Get(rows[i], K_copies) =
             IF Strip(InputCell(i, K_copies)) \in {<<>>, Zero} THEN One
             ELSE InputCell(i, K_copies)
    /\ fixed_copies =
         Cardinality({i \in 1..val_i :
                        IsData(i) /\ Strip(InputCell(i, K_copies)) \in {<<>>, Zero}})
    /\ OutputFromRows

\* C9's case: a validation returned rows of which one had copies "0" and got
\* "1", and one had copies "2" and kept it.
C9_Witness ==
  /\ pc \in {"valbuf_return", "gval_true"}
  /\ Len(out_rows.rows) = 2
  /\ \E i, j \in 1..2 :
       /\ InputCell(i, K_copies) = Zero /\ out_rows.rows[i][K_copies] = One
       /\ InputCell(j, K_copies) = <<"2">> /\ out_rows.rows[j][K_copies] = <<"2">>
  /\ fixed_copies = 1

\* The name the extension step leaves for input row i, as the claim has it:
\* the filename cell plus ".stl" unless the cell is empty or ends with ".stl"
\* in some letter case.
ClaimedName(cell) ==
  IF cell # <<>> /\ ~EndsWith(Lower(cell), DotStl) THEN cell \o DotStl ELSE cell

\* C10 as claimed, for validate_and_fix_meta_buffer: a processed row's
\* filename is its filename cell, with ".stl" appended if the cell is not
\* empty and does not end with ".stl" in any letter case.
C10_Claim ==
  pc \in {"valbuf_rows", "valbuf_return"} =>
    \A i \in 1..val_i :
      Get(rows[i], K_filename) = ClaimedName(InputCell(i, K_filename))

\* Whether the trimmed filename cell of input row i lacks the extension.
LacksExtension(i) ==
  LET f == Strip(InputCell(i, K_filename))
  IN  f # <<>> /\ ~EndsWith(Lower(f), DotStl)

\* C10 as amended: with f the filename cell trimmed of surrounding
\* whitespace, a processed data row whose f is not empty and does not end
\* with ".stl" in any letter case gets f plus one ".stl" (sanitized, in the
\* GUI, where a row is kept only if its file is found), every other row keeps
\* its cell (sanitized, in the GUI), and fixed_filenames counts the rows of
\* the first kind.
C10_Extension ==
  pc \in {"valbuf_rows", "valbuf_return", "gval_rows", "gval_true", "gval_false"} =>
    /\ \A i \in 1..val_i :
         LET f == Strip(InputCell(i, K_filename))
             got == Get(rows[i], K_filename)
         IN  IF program = "converter"
             THEN got = IF LacksExtension(i) THEN f \o DotStl
                        ELSE InputCell(i, K_filename)
             ELSE \/ got = InputCell(i, K_filename)
                  \/ /\ IsData(i)
                     /\ got = sanitize_filename(IF LacksExtension(i)
                                                THEN f \o DotStl ELSE f)
    /\ \A j \in DOMAIN cleaned_rows :
         EndsWith(Lower(cleaned_rows[j][K_filename]), DotStl)
    /\ fixed_filenames =
         Cardinality({i \in 1..val_i : IsData(i) /\ LacksExtension(i)})
    /\ OutputFromRows

\* C10's case: a validation returned rows of which one had the filename "a"
\* and got "a.stl", and one had "c.STL" and kept it.
C10_Witness ==
  /\ pc \in {"valbuf_return", "gval_true"}
  /\ Len(out_rows.rows) = 2
  /\ \E i, j \in 1..2 :
       /\ InputCell(i, K_filename) = <<"a">>
       /\ out_rows.rows[i][K_filename] = F_a
       /\ InputCell(j, K_filename) = F_c
       /\ out_rows.rows[j][K_filename] = F_c
  /\ fixed_filenames = 1

\* C11: what sanitize_filename returns is what sanitize_filename returns for
\* it again, holds only letters, digits, underscores and dots, has no two
\* underscores in a row, and neither starts nor ends with an underscore or a
\* space.
C11_Idempotent ==
  pc = "san_return" =>
    /\ sanitize_filename(sanitized) = sanitized
    /\ \A i \in DOMAIN sanitized :
         sanitized[i] \in Range(UpperLetters) \cup Range(LowerLetters)
                          \cup Digits \cup {"_", "."}
    /\ \A i \in 1..(Len(sanitized) - 1) :
         ~(sanitized[i] = "_" /\ sanitized[i + 1] = "_")
    /\ sanitized # <<>> =>
         /\ sanitized[1] \notin {"_", " "}
         /\ sanitized[Len(sanitized)] \notin {"_", " "}

\* C11's case: "- a_" was sanitized, every step changing it, to "a".
C11_Witness ==
  /\ pc = "san_return"
  /\ value = <<"-", " ", "a", "_">>
  /\ sanitized = <<"a">>

\* The (batch, material) pairs of the validated rows.
PlanKeys ==
  {<<Get(cleaned_rows[i], K_batch), Get(cleaned_rows[i], K_material)>> :
     i \in DOMAIN cleaned_rows}

\* A pair has a directory of its material's name, up to letter case, in which
\* the file of one of its rows exists.
Resolved(key) ==
  \E d \in DOMAIN disk \ {ROOT} :
    /\ Lower(d) = Lower(key[2])
    /\ \E i \in DOMAIN cleaned_rows :
         /\ Get(cleaned_rows[i], K_batch) = key[1]
         /\ Get(cleaned_rows[i], K_material) = key[2]
         /\ Get(cleaned_rows[i], K_filename) \in DOMAIN disk[d]

\* C12: in run_conversion, packaging is entered, or an archive exists, only
\* if every (batch, material) pair of the validated rows resolved a directory
\* that holds a file of the pair, each pair having its group with rows; and a
\* run with a pair that did not has ended without success and without any
\* archive; a run ends at step 4 for no other reason.
C12_AllOrNothing ==
  /\ (pc = "gui_pack" \/ archives # <<>> \/ path = "success") =>
        /\ \A key \in PlanKeys : Resolved(key)
        /\ Len(groups) = Cardinality(PlanKeys)
        /\ \A g \in DOMAIN groups :
             /\ <<groups[g].batch, groups[g].material>> \in PlanKeys
             /\ groups[g].rows # <<>>
             /\ Lower(groups[g].folder) = Lower(groups[g].material)
  /\ (pc = "gui_done" /\ \E key \in PlanKeys : ~Resolved(key)) =>
        (path \in {"fatal", "cancelled"} /\ archives = <<>>)
  /\ (pc = "gui_done" /\ path = "fatal") => \E key \in PlanKeys : ~Resolved(key)

\* C12's case: the run ended fatally without an archive after the group that
\* sorts first had resolved its directory and kept a row.
C12_Witness ==
  /\ pc = "gui_done"
  /\ path = "fatal"
  /\ archives = <<>>
  /\ Len(groups) = 1
  /\ Resolved(<<groups[1].batch, groups[1].material>>)
  /\ Cardinality(PlanKeys) = 2

\* A text that is a decimal integer of at least 1.
IsPositiveInteger(t) ==
  /\ t # <<>>
  /\ \A i \in DOMAIN t : t[i] \in Digits
  /\ \E i \in DOMAIN t : t[i] # "0"

\* C13 as claimed: when validate_and_fix_meta has returned True and
\* run_conversion has read the rows back, every row's filename ends with
\* ".stl" in some letter case, holds only allowed characters and is a file
\* of a directory named as the row's material up to letter case, and its
\* copies is an integer of at least 1.
C13_Claim ==
  pc = "gui_step4" =>
    \A i \in DOMAIN out_rows.rows :
      LET row == out_rows.rows[i]
      IN  /\ EndsWith(Lower(row[K_filename]), DotStl)
          /\ \A j \in DOMAIN row[K_filename] : IsAllowed(row[K_filename][j])
          /\ \E d \in DOMAIN disk \ {ROOT} :
               /\ Lower(d) = Lower(Strip(row[K_material]))
               /\ row[K_filename] \in DOMAIN disk[d]
          /\ IsPositiveInteger(row[K_copies])

\* C14 as claimed: when run_conversion has ended, on whatever path, the
\* scratch directory it created is gone.
C14_Claim == pc = "gui_done" => ~temp_dir

\* The run is at a statement that is a cancellation check.
AtCheck ==
  \/ pc \in {"cli_start", "cli_convert", "valbuf_return",
             "gui_step1", "gui_step2", "gui_step3", "gui_step4",
             "gui_group", "gui_pack"}
  \/ pc = "valbuf_rows" /\ val_i < Len(rows)
  \/ pc = "cli_package" /\ (fold_i < Len(stl_folders) \/ root_stls # <<>>)

\* C15 as claimed: the token changes only from unset to set, and by no step
\* of the pipeline.
C15_Claim == [][cancel' # cancel => (~cancel /\ cancel' /\ pc' = pc)]_vars

\* C15 as amended: the token changes from unset to set by the caller alone
\* (no step of the pipeline), and from set to unset only as run_conversion
\* ends (its finally clause); and a cancellation check made with the token
\* set ends the run as cancelled.
C15_Token ==
  [][/\ cancel' # cancel =>
          \/ ~cancel /\ cancel' /\ pc' = pc
          \/ cancel /\ ~cancel' /\ program = "gui" /\ pc' = "gui_done"
     /\ (cancel /\ AtCheck /\ pc' # pc) =>
          (path' = "cancelled" \/ pc' = "valbuf_cancelled")]_vars

\* C15's case: main ended as cancelled on the check before its second
\* folder, the token still set.
C15_Witness ==
  /\ pc = "cli_done"
  /\ path = "cancelled"
  /\ cancel
  /\ fold_i = 1
  /\ archives # <<>>

\* C16 as claimed, for main: with the token set, no step adds a member file
\* to any archive (a check and the write after it being one step).
C16_Claim == [][cancel => Members(archives', 1) = Members(archives, 1)]_vars

\* C17 as claimed: when validate_and_fix_meta has gone through the rows of a
\* manifest with the schema's header, every row that is not blank has as
\* many errors under its row number as it has empty cells among the 8
\* columns.
C17_Claim ==
  (pc \in {"gval_true", "gval_false"} /\ header = REQUIRED_COLUMNS) =>
    \A i \in DOMAIN rows_in :
      (\E j \in DOMAIN rows_in[i] : Strip(rows_in[i][j]) # <<>>) =>
        Cardinality({j \in DOMAIN errors : errors[j] = i + 1}) =
          Cardinality({k \in Range(REQUIRED_COLUMNS) :
                         Strip(InputCell(i, k)) = <<>>})

\* C18 as claimed: validate_and_fix_meta, on a header that matches the
\* schema, ends by returning False if an error was recorded and by returning
\* True if none was.
C18_Claim ==
  (pc \in {"gval_true", "gval_false", "gval_raise"}
     /\ header # NoHeader /\ HeaderMatches(header)) =>
    IF errors # <<>> THEN pc = "gval_false" ELSE pc = "gval_true"

\* C19 as claimed: when validate_and_fix_meta has gone through the rows,
\* every row that is not blank was recorded as an error, dropped or kept, and
\* every row kept names, letter for letter, a file of the folder.
C19_Claim ==
  (pc \in {"gval_true", "gval_false"} /\ header # NoHeader
     /\ HeaderMatches(header)) =>
    /\ Len(errors) + removed_rows + Len(cleaned_rows) =
         Cardinality({i \in DOMAIN rows_in :
                        \E j \in DOMAIN rows_in[i] : Strip(rows_in[i][j]) # <<>>})
    /\ \A j \in DOMAIN cleaned_rows :
         cleaned_rows[j][K_filename] \in DOMAIN disk[stl_folder]

\* The entries of a list of names that are files of directory d, in order.
OnDisk(d, names) == SelectSeq(names, LAMBDA n : n \in DOMAIN disk[d])

\* C20: at every moment the member files of the archives, taken together in
\* archive order, are the entries consumed so far of the input list (of
\* file_list in zip_with_limit, of the group's rows in step 5) that are
\* files on disk, in the list's order and each as often as the list has it;
\* and when the packager has returned, or the run has succeeded, the whole
\* list is consumed.
C20_Partition ==
  /\ program = "converter" =>
        /\ Members(archives, 1) = OnDisk(base_dir, SubSeq(file_list, 1, zip_i))
        /\ pc = "zip_return" => zip_i = Len(file_list)
  /\ program = "gui" =>
        LET files == OnDisk(groups[1].folder, RowFiles(groups[1].rows))
            packed == Members(archives, 1)
        IN  /\ Len(packed) <= Len(files)
            /\ packed = SubSeq(files, 1, Len(packed))
            /\ \A k \in 1..(Len(archives) - 1) :
                 Len(archives[k].members) = MAX_STL_PER_ZIP
            /\ path = "success" => packed = files

\* C20's case: zip_with_limit returned two archives or more, with two member
\* files or more, for a list of which an entry is no file on disk.
C20_Witness ==
  /\ pc = "zip_return"
  /\ Len(archives) >= 2
  /\ Len(Members(archives, 1)) >= 2
  /\ \E i \in DOMAIN file_list : file_list[i] \notin DOMAIN disk[base_dir]

\* C21 as claimed: when zip_with_limit has returned, every archive in
\* zip_paths holds at least one member file.
C21_Claim ==
  pc = "zip_return" =>
    \A k \in (zip_from + 1)..Len(archives) : archives[k].members # <<>>

=============================================================================
